---- MODULE Spec2Model ----
(***************************************************************************)
(* Model of src/Search.jsx: the Search component (filters, paginated       *)
(* search, chunked CSV export, the assignee list loaded on mount) together *)
(* with the remote 'patents' table it queries through the supabase client. *)
(*                                                                         *)
(* Strings are sequences of one-character strings.  A date is a day number *)
(* (ISO dates compare as strings exactly as their day numbers compare).    *)
(***************************************************************************)
EXTENDS Integers, Sequences, FiniteSets, TLC

\* ---- bounds of the model -------------------------------------------------
MaxRows == 13          \* rows of the remote table in the interactive model
MaxExportRows == 2001  \* rows of the remote table in the export-only model
MaxTotal == 25         \* largest totalCount of the pagination model
MaxPage == 4           \* largest page of the pagination model
MaxCell == 2           \* longest cell text of the CSV model

\* ---- program constants ---------------------------------------------------
PAGE_SIZE == 10
pageSize == 1000

\* ---- value encodings -----------------------------------------------------
EmptyStr == <<>>            \* ''
NullStr == <<"null">>       \* a null text column
EmptyDate == 0              \* '' in a date input / a flattened null date
NullDate == -1              \* a null filing_date column
NoCount == -1               \* count: null in a response
None == [kind |-> "none"]   \* null / no request / no file

Min(a, b) == IF a < b THEN a ELSE b
Max(a, b) == IF a > b THEN a ELSE b
\* Math.ceil(a / b) for a >= 0, b > 0
Ceil(a, b) == (a + b - 1) \div b

\* ---- String.prototype.trim ----------------------------------------------
IsSpace(c) == c = " "

RECURSIVE TrimStart(_)
TrimStart(s) ==
  IF s = <<>> THEN <<>>
  ELSE IF IsSpace(Head(s)) THEN TrimStart(Tail(s)) ELSE s

RECURSIVE TrimEnd(_)
TrimEnd(s) ==
  IF s = <<>> THEN <<>>
  ELSE IF IsSpace(s[Len(s)]) THEN TrimEnd(SubSeq(s, 1, Len(s) - 1)) ELSE s

Trim(s) == TrimEnd(TrimStart(s))

\* ---- the values the user can put in the four filter inputs --------------
Keywords == { <<>>, <<" ", "a">>, <<"a", "b">> }
AssigneeOptions == { EmptyStr, <<"a", "c">> }
FromDates == { EmptyDate, 3 }
ToDates == { EmptyDate, 2 }

NoFilter ==
  [query |-> EmptyStr, assignee |-> EmptyStr,
   fromDate |-> EmptyDate, toDate |-> EmptyDate]

\* ---- buildFilteredQuery --------------------------------------------------
\* An optional constraint is a sequence of zero or one arguments.

\* buildFilteredQuery without the trim of the keyword
buildFilteredQueryUntrimmed(f, countMode) ==
  LET kw == f.query IN
  [ table   |-> "patents",
    select  |-> "id, patent_number, title, abstract, assignee, filing_date",
    count   |-> IF countMode THEN "exact" ELSE "none",
    order   |-> [column |-> "filing_date", ascending |-> FALSE],
    orIlike |-> IF Len(kw) >= 2 THEN <<kw>> ELSE <<>>,
    eq      |-> IF f.assignee # EmptyStr THEN <<f.assignee>> ELSE <<>>,
    gte     |-> IF f.fromDate # EmptyDate THEN <<f.fromDate>> ELSE <<>>,
    lte     |-> IF f.toDate # EmptyDate THEN <<f.toDate>> ELSE <<>>,
    range   |-> <<>> ]

buildFilteredQuery(f, countMode) ==
  LET kw == Trim(f.query) IN
  [ table   |-> "patents",
    select  |-> "id, patent_number, title, abstract, assignee, filing_date",
    count   |-> IF countMode THEN "exact" ELSE "none",
    order   |-> [column |-> "filing_date", ascending |-> FALSE],
    orIlike |-> IF Len(kw) >= 2 THEN <<kw>> ELSE <<>>,
    eq      |-> IF f.assignee # EmptyStr THEN <<f.assignee>> ELSE <<>>,
    gte     |-> IF f.fromDate # EmptyDate THEN <<f.fromDate>> ELSE <<>>,
    lte     |-> IF f.toDate # EmptyDate THEN <<f.toDate>> ELSE <<>>,
    range   |-> <<>> ]

\* q.range(from, to)
WithRange(q, from, to) == [q EXCEPT !.range = <<from, to>>]

\* the constraints and ordering of a query, without count mode and range
Constraints(q) ==
  [orIlike |-> q.orIlike, eq |-> q.eq, gte |-> q.gte, lte |-> q.lte,
   order |-> q.order]

\* ---- the remote 'patents' table -----------------------------------------
NumDates == 4

RowOf(k) ==
  [ id            |-> k,
    patent_number |-> 7000 + k,
    title         |-> IF k % 6 = 0 THEN <<"b", "a">>
                      ELSE IF k % 2 = 0 THEN <<"a", "b">> ELSE <<"A", "b">>,
    abstract      |-> IF k % 5 = 0 THEN <<"c", "A", "B">> ELSE <<"c">>,
    assignee      |-> IF k % 3 = 0 THEN <<"a", "c">>
                      ELSE IF k % 3 = 1 THEN <<"b", "c">> ELSE NullStr,
    filing_date   |-> IF k % 7 = 3 THEN NullDate ELSE ((k * 3) % NumDates) + 1 ]

Table(n) == [k \in 1..n |-> RowOf(k)]

Lower(c) == IF c = "A" THEN "a" ELSE IF c = "B" THEN "b" ELSE c
LowerStr(s) == [i \in 1..Len(s) |-> Lower(s[i])]

\* column ILIKE '%kw%'; a null column never matches
Ilike(text, kw) ==
  /\ text # NullStr
  /\ \E i \in 0..(Len(text) - Len(kw)) :
        LowerStr(SubSeq(text, i + 1, i + Len(kw))) = LowerStr(kw)

Matches(q, r) ==
  /\ \A j \in 1..Len(q.orIlike) :
        \/ Ilike(r.title, q.orIlike[j])
        \/ Ilike(r.abstract, q.orIlike[j])
        \/ Ilike(r.assignee, q.orIlike[j])
  /\ \A j \in 1..Len(q.eq) : r.assignee = q.eq[j]
  /\ \A j \in 1..Len(q.gte) :
        r.filing_date # NullDate /\ r.filing_date >= q.gte[j]
  /\ \A j \in 1..Len(q.lte) :
        r.filing_date # NullDate /\ r.filing_date <= q.lte[j]

\* ORDER BY filing_date {ASC|DESC}: nulls sort as larger than any date; rows
\* with equal dates keep the table's order.
OnDate(rows, d) == SelectSeq(rows, LAMBDA r : r.filing_date = d)

RECURSIVE DatesDown(_, _)
DatesDown(rows, d) ==
  IF d < 1 THEN <<>> ELSE OnDate(rows, d) \o DatesDown(rows, d - 1)

RECURSIVE DatesUp(_, _)
DatesUp(rows, d) ==
  IF d > NumDates THEN <<>> ELSE OnDate(rows, d) \o DatesUp(rows, d + 1)

Ordered(rows, order) ==
  IF order.ascending
    THEN DatesUp(rows, 1) \o OnDate(rows, NullDate)
    ELSE OnDate(rows, NullDate) \o DatesDown(rows, NumDates)

Selected(q, n) ==
  Ordered(SelectSeq(Table(n), LAMBDA r : Matches(q, r)), q.order)

\* the rows of the zero-based inclusive range of a query
Slice(rows, range) ==
  IF range = <<>> THEN rows
  ELSE SubSeq(rows, range[1] + 1, Min(range[2] + 1, Len(rows)))

\* what `await q` can resolve to against a table of n rows: an error, or the
\* rows of the range with the exact count (or with no count at all)
Answer(q, n) ==
  LET sel == Selected(q, n) IN
  [error |-> FALSE, data |-> Slice(sel, q.range),
   count |-> IF q.count = "exact" THEN Len(sel) ELSE NoCount]

Failure == [error |-> TRUE, data |-> <<>>, count |-> NoCount]

Responses(q, n) ==
  LET a == Answer(q, n) IN
  {Failure, a, [a EXCEPT !.count = NoCount]}

\* the assignee values of the table, ascending
AssigneeNames == << <<"a", "c">>, <<"b", "c">> >>

\* WHERE assignee IS NOT NULL ORDER BY assignee ASC: rows with equal
\* assignees keep the table's order
RECURSIVE ByAssignee(_, _)
ByAssignee(rows, j) ==
  IF j > Len(AssigneeNames) THEN <<>>
  ELSE SelectSeq(rows, LAMBDA r : r.assignee = AssigneeNames[j])
         \o ByAssignee(rows, j + 1)

\* what the assignee query can resolve to: an error, the first q.limit
\* rows, or no error and no data
AssigneeAnswer(q, n) ==
  LET sel == ByAssignee(Table(n), 1) IN
  [error |-> FALSE, hasData |-> TRUE,
   data |-> [i \in 1..Min(q.limit, Len(sel)) |-> [assignee |-> sel[i].assignee]]]

AssigneeResponses(q, n) ==
  { [error |-> TRUE, hasData |-> FALSE, data |-> <<>>],
    AssigneeAnswer(q, n),
    [error |-> FALSE, hasData |-> FALSE, data |-> <<>>] }

\* ---- state ---------------------------------------------------------------
VARIABLES
  query, assignee, fromDate, toDate,   \* the four filter inputs (useState)
  results, page, totalCount,           \* data and pagination (useState)
  loading, err, exporting,             \* UX flags (useState)
  nrows,                               \* number of rows of the remote table
  searchReq,                           \* the query runSearch is awaiting
  xpc, xfilter, xcount, xi, all,       \* the exportAll call: its position,
                                       \* the filter values its closure
                                       \* holds, count, i and the rows
  exportReq,                           \* the query exportAll is awaiting
  op, issued, got, download,           \* the last handler run: the query it
                                       \* issued, the response it received,
                                       \* its downloadCSV call
  submitQ, shownQ,                     \* history: constraints of the last
                                       \* submitted query; query and page
                                       \* that produced `results`
  xissued, saves, alerts, activeRuns,  \* history of the exportAll call:
                                       \* queries issued, downloadCSV and
                                       \* alert calls; calls not yet ended
  pending,                             \* queries runSearch is awaiting
  resetHeld,                           \* history: Reset was pressed while a
                                       \* search query was awaited, and no
                                       \* submit followed yet
  assignees,                           \* options of the select (useState)
  mounted, cancelled, loadReq,         \* the mount effect: the component is
                                       \* mounted, the effect's `cancelled`,
                                       \* the assignee query it is awaiting
  csvRows, csvText                     \* downloadCSV: its rows argument and
                                       \* the text of the Blob it built

filterVars == <<query, assignee, fromDate, toDate>>
dataVars == <<results, page, totalCount>>
searchVars == <<results, page, totalCount, loading, err, searchReq, submitQ,
                shownQ, pending, resetHeld>>
exportVars == <<xpc, xfilter, xcount, xi, all, exportReq, exporting>>
exportHist == <<xissued, saves, alerts, activeRuns>>
loadVars == <<assignees, mounted, cancelled, loadReq>>
csvVars == <<csvRows, csvText>>
envVars == <<nrows, loadVars, csvVars>>
vars ==
  <<query, assignee, fromDate, toDate, results, page, totalCount, loading,
    err, exporting, nrows, searchReq, xpc, xfilter, xcount, xi, all,
    exportReq, op, issued, got, download, submitQ, shownQ, xissued, saves,
    alerts, activeRuns, pending, resetHeld, assignees, mounted, cancelled,
    loadReq, csvRows, csvText>>

NoError == "null"
SearchFailed == "Search failed. Please try again."

\* the filter values the current render's closures hold
Filter ==
  [query |-> query, assignee |-> assignee,
   fromDate |-> fromDate, toDate |-> toDate]

\* what the step of a handler leaves in the history
Did(name, q, resp, file) ==
  /\ op' = name
  /\ issued' = q
  /\ got' = resp
  /\ download' = file

\* the response to a query of some kind, as the history keeps it
Got(kind, r) ==
  [kind |-> kind, error |-> r.error, count |-> r.count, rows |-> Len(r.data)]

\* ---- pagination ----------------------------------------------------------
\* totalPages with Math.floor in place of Math.ceil
totalPagesFloor == Max(1, totalCount \div PAGE_SIZE)

totalPages == Max(1, Ceil(totalCount, PAGE_SIZE))
canPrev == page > 1
canNext == page < totalPages

resetPagination ==
  /\ page' = 1
  /\ totalCount' = 0

\* ---- runSearch -----------------------------------------------------------
SearchFrom(targetPage) == (targetPage - 1) * PAGE_SIZE
SearchTo(targetPage) == SearchFrom(targetPage) + PAGE_SIZE - 1

\* the query runSearch builds, from the filter values of the render whose
\* handler called it
SearchQuery(targetPage) ==
  WithRange(buildFilteredQuery(Filter, TRUE),
            SearchFrom(targetPage), SearchTo(targetPage))

\* runSearch with setPage moved before the await (optimistic navigation)
runSearchOptimistic(targetPage) ==
  /\ err' = NoError
  /\ loading' = TRUE
  /\ page' = targetPage
  /\ searchReq' = [kind |-> "search", q |-> SearchQuery(targetPage),
                   targetPage |-> targetPage]
  /\ pending' = pending + 1
  /\ UNCHANGED <<filterVars, results, totalCount, shownQ>>

\* runSearch up to its await
runSearch(targetPage) ==
  /\ err' = NoError
  /\ loading' = TRUE
  /\ searchReq' = [kind |-> "search", q |-> SearchQuery(targetPage),
                   targetPage |-> targetPage]
  /\ pending' = pending + 1
  /\ UNCHANGED <<filterVars, dataVars, shownQ>>

\* runSearch after its await, on a response without error
runSearchOk(r) ==
  /\ results' = r.data
  /\ totalCount' = (IF r.count = NoCount THEN 0 ELSE r.count)
  /\ page' = searchReq.targetPage
  /\ shownQ' = [kind |-> "shown", c |-> Constraints(searchReq.q),
                page |-> searchReq.targetPage]
  /\ UNCHANGED err

\* the catch block without setResults([]) and setTotalCount(0)
runSearchCatchStale ==
  /\ err' = SearchFailed
  /\ UNCHANGED <<results, totalCount, shownQ, page>>

\* runSearch after its await, on an error
runSearchCatch ==
  /\ err' = SearchFailed
  /\ results' = <<>>
  /\ totalCount' = 0
  /\ shownQ' = None
  /\ UNCHANGED page

\* runSearch without its `finally`
runSearchNoFinally ==
  /\ searchReq' = None
  /\ UNCHANGED loading

\* `finally` of runSearch
runSearchFinally ==
  /\ loading' = FALSE
  /\ searchReq' = None

\* the awaited query of runSearch resolves
SearchResolve ==
  /\ searchReq # None
  /\ \E r \in Responses(searchReq.q, nrows) :
       /\ IF r.error THEN runSearchCatch ELSE runSearchOk(r)
       /\ Did(IF r.error THEN "searchFailed" ELSE "searchOk", None,
              Got("search", r), None)
  /\ runSearchFinally
  /\ pending' = pending - 1
  /\ UNCHANGED <<filterVars, envVars, exportVars, exportHist, submitQ,
                 resetHeld>>

\* ---- handlers ------------------------------------------------------------
\* the emptiness test on the untrimmed keyword
IsEmptyFilterNoTrim(f) ==
  /\ Len(f.query) < 2
  /\ f.assignee = EmptyStr
  /\ f.fromDate = EmptyDate
  /\ f.toDate = EmptyDate

IsEmptyFilter(f) ==
  /\ Len(Trim(f.query)) < 2
  /\ f.assignee = EmptyStr
  /\ f.fromDate = EmptyDate
  /\ f.toDate = EmptyDate

handleSubmit ==
  IF IsEmptyFilter(Filter)
    THEN /\ results' = <<>>
         /\ totalCount' = 0
         /\ shownQ' = None
         /\ UNCHANGED <<filterVars, page, loading, err, searchReq, submitQ,
                        pending>>
    ELSE /\ runSearch(1)
         /\ submitQ' = Constraints(SearchQuery(1))

\* a submit button that is never disabled
CanSubmitAlways == TRUE

\* the submit button: disabled={loading}
CanSubmit == ~loading

\* the form is submitted; its submit button is disabled while loading
Submit ==
  /\ CanSubmit
  /\ handleSubmit
  /\ resetHeld' = FALSE
  /\ Did("submit", IF searchReq' # searchReq THEN searchReq' ELSE None,
         None, None)
  /\ UNCHANGED <<envVars, exportVars, exportHist>>

\* Prev button: rendered when totalCount > 0, disabled={!canPrev || loading}
Prev ==
  /\ totalCount > 0
  /\ canPrev /\ ~loading
  /\ runSearch(page - 1)
  /\ Did("prev", searchReq', None, None)
  /\ UNCHANGED <<envVars, exportVars, exportHist, submitQ, resetHeld>>

\* Next button: rendered when totalCount > 0, disabled={!canNext || loading}
Next_ ==
  /\ totalCount > 0
  /\ canNext /\ ~loading
  /\ runSearch(page + 1)
  /\ Did("next", searchReq', None, None)
  /\ UNCHANGED <<envVars, exportVars, exportHist, submitQ, resetHeld>>

\* handleReset without its call of resetPagination
handleResetKeepPagination ==
  /\ query' = EmptyStr
  /\ assignee' = EmptyStr
  /\ fromDate' = EmptyDate
  /\ toDate' = EmptyDate
  /\ results' = <<>>
  /\ err' = NoError
  /\ UNCHANGED <<page, totalCount>>

handleReset ==
  /\ query' = EmptyStr
  /\ assignee' = EmptyStr
  /\ fromDate' = EmptyDate
  /\ toDate' = EmptyDate
  /\ results' = <<>>
  /\ err' = NoError
  /\ resetPagination

\* Reset button: never disabled
Reset ==
  /\ handleReset
  /\ shownQ' = None
  /\ resetHeld' = (searchReq # None)
  /\ Did("reset", None, None, None)
  /\ UNCHANGED <<loading, envVars, searchReq, exportVars, exportHist, submitQ,
                 pending>>

\* onChange of the four filter inputs
SetQuery ==
  /\ \E v \in Keywords : v # query /\ query' = v
  /\ Did("edit", None, None, None)
  /\ UNCHANGED <<assignee, fromDate, toDate, searchVars, envVars, exportVars,
                 exportHist>>

SetAssignee ==
  /\ \E v \in AssigneeOptions :
       /\ v = EmptyStr \/ \E j \in 1..Len(assignees) : assignees[j] = v
       /\ v # assignee
       /\ assignee' = v
  /\ Did("edit", None, None, None)
  /\ UNCHANGED <<query, fromDate, toDate, searchVars, envVars, exportVars,
                 exportHist>>

SetFromDate ==
  /\ \E v \in FromDates : v # fromDate /\ fromDate' = v
  /\ Did("edit", None, None, None)
  /\ UNCHANGED <<query, assignee, toDate, searchVars, envVars, exportVars,
                 exportHist>>

SetToDate ==
  /\ \E v \in ToDates : v # toDate /\ toDate' = v
  /\ Did("edit", None, None, None)
  /\ UNCHANGED <<query, assignee, fromDate, searchVars, envVars, exportVars,
                 exportHist>>

\* ---- the mount effect: the assignee list ----------------------------------
AssigneeLimit == 500

AssigneeQuery ==
  [ table   |-> "patents",
    select  |-> "assignee",
    notNull |-> "assignee",
    order   |-> [column |-> "assignee", ascending |-> TRUE],
    limit   |-> AssigneeLimit ]

\* [...new Set(s)]: the first occurrence of each value, in order
Firsts(s) == {i \in 1..Len(s) : \A j \in 1..(i - 1) : s[j] # s[i]}

RECURSIVE Ascending(_)
Ascending(S) ==
  IF S = {} THEN <<>>
  ELSE LET m == CHOOSE i \in S : \A j \in S : i <= j
       IN <<m>> \o Ascending(S \ {m})

Uniq(s) ==
  LET idx == Ascending(Firsts(s)) IN [k \in 1..Len(idx) |-> s[idx[k]]]

\* (data || []).map((d) => d.assignee).filter(Boolean), made unique
UniqAssignees(r) ==
  LET d == IF r.hasData THEN r.data ELSE <<>>
      names == [i \in 1..Len(d) |-> d[i].assignee]
  IN Uniq(SelectSeq(names, LAMBDA v : v # NullStr /\ v # EmptyStr))

\* an effect that never returns early
LoadNeverCancelled == FALSE

\* `if (cancelled) return` after the await
LoadCancelled == cancelled

\* the awaited assignee query resolves
AssigneeLoadResolve ==
  /\ loadReq # None
  /\ \E r \in AssigneeResponses(loadReq, nrows) :
       /\ assignees' = IF LoadCancelled THEN assignees
                       ELSE IF r.error THEN <<>>
                       ELSE UniqAssignees(r)
       /\ Did("assignees", None,
              [kind |-> "assignees", error |-> r.error, count |-> NoCount,
               rows |-> Len(r.data)], None)
  /\ loadReq' = None
  /\ UNCHANGED <<filterVars, searchVars, nrows, mounted, cancelled, csvVars,
                 exportVars, exportHist>>

\* the component is unmounted: the cleanup of the effect runs
Unmount ==
  /\ mounted
  /\ mounted' = FALSE
  /\ cancelled' = TRUE
  /\ Did("unmount", None, None, None)
  /\ UNCHANGED <<filterVars, searchVars, nrows, assignees, loadReq, csvVars,
                 exportVars, exportHist>>

\* ---- exportCurrentPage / exportAll ---------------------------------------
\* the object literal both exports map each row to
Flatten(r) ==
  [ id            |-> r.id,
    patent_number |-> r.patent_number,
    title         |-> r.title,
    assignee      |-> IF r.assignee = NullStr THEN EmptyStr ELSE r.assignee,
    filing_date   |-> IF r.filing_date = NullDate THEN EmptyDate
                      ELSE r.filing_date ]

FlattenAll(rows) == [j \in 1..Len(rows) |-> Flatten(rows[j])]

\* ---- toCSV ----------------------------------------------------------------
\* An object is the sequence of its <<key, value>> pairs in insertion order;
\* keys and values are strings, a null or undefined value is NullStr.
RECURSIVE Join(_, _)
Join(parts, sep) ==
  IF parts = <<>> THEN <<>>
  ELSE IF Len(parts) = 1 THEN parts[1]
  ELSE parts[1] \o sep \o Join(Tail(parts), sep)

RECURSIVE ReplaceAll(_, _, _)
ReplaceAll(s, c, by) ==
  IF s = <<>> THEN <<>>
  ELSE (IF Head(s) = c THEN by ELSE <<Head(s)>>) \o ReplaceAll(Tail(s), c, by)

\* escape without the doubling of double quotes
escapeKeepQuotes(v) ==
  IF v = NullStr THEN EmptyStr
  ELSE ReplaceAll(ReplaceAll(v, "\n", <<" ">>), "\r", <<" ">>)

escape(v) ==
  IF v = NullStr THEN EmptyStr
  ELSE ReplaceAll(ReplaceAll(ReplaceAll(v, "\"", <<"\"", "\"">>),
                             "\n", <<" ">>),
                  "\r", <<" ">>)

ObjectKeys(o) == [j \in 1..Len(o) |-> o[j][1]]

ValueOf(o, key) ==
  IF \E j \in 1..Len(o) : o[j][1] = key
    THEN o[CHOOSE j \in 1..Len(o) : o[j][1] = key][2]
    ELSE NullStr

toCSV(rows) ==
  IF rows = <<>> THEN EmptyStr
  ELSE
    LET headers == ObjectKeys(rows[1])
        cell(r, h) == <<"\"">> \o escape(ValueOf(r, h)) \o <<"\"">>
        line(r) == Join([j \in 1..Len(headers) |-> cell(r, headers[j])], <<",">>)
        lines == <<Join(headers, <<",">>)>> \o [j \in 1..Len(rows) |-> line(rows[j])]
    IN  Join(lines, <<"\n">>)

\* String(v) of a number and of a date
DigitChars == <<"0", "1", "2", "3", "4", "5", "6", "7", "8", "9">>

RECURSIVE Digits(_)
Digits(n) ==
  IF n < 10 THEN <<DigitChars[n + 1]>>
  ELSE Digits(n \div 10) \o <<DigitChars[(n % 10) + 1]>>

\* day number d stands for the date 2020-01-d
DateText(d) ==
  IF d = EmptyDate THEN EmptyStr
  ELSE <<"2", "0", "2", "0", "-", "0", "1", "-">>
         \o (IF d < 10 THEN <<"0">> ELSE <<>>) \o Digits(d)

\* a flattened row as the object toCSV receives
ObjectOf(r) ==
  << <<<<"i", "d">>, Digits(r.id)>>,
     <<<<"p", "a", "t", "e", "n", "t", "_", "n", "u", "m", "b", "e", "r">>,
       Digits(r.patent_number)>>,
     <<<<"t", "i", "t", "l", "e">>, r.title>>,
     <<<<"a", "s", "s", "i", "g", "n", "e", "e">>, r.assignee>>,
     <<<<"f", "i", "l", "i", "n", "g", "_", "d", "a", "t", "e">>,
       DateText(r.filing_date)>> >>

\* the text downloadCSV puts in the file
CsvText(file) == toCSV([j \in 1..Len(file.rows) |-> ObjectOf(file.rows[j])])

\* the call downloadCSV(filename, rows)
DownloadCSV(filename, rows) ==
  [kind |-> "file", filename |-> filename, rows |-> rows]

\* downloadCSV(filename, csvRows) up to the Blob: csv = toCSV(rows)
DownloadCSVText ==
  /\ op # "downloadCSV"
  /\ csvText' = toCSV(csvRows)
  /\ Did("downloadCSV", None, None, None)
  /\ UNCHANGED <<filterVars, searchVars, nrows, loadVars, csvRows, exportVars,
                 exportHist>>

\* button disabled={!results.length || loading}
ExportCurrentPage ==
  /\ results # <<>> /\ ~loading
  /\ Did("exportCurrentPage", None, None,
         DownloadCSV("patents_current_page.csv", FlattenAll(results)))
  /\ UNCHANGED <<filterVars, searchVars, envVars, exportVars, exportHist>>

\* the range end without the clamp to count - 1
ChunkToUnclamped(i, count) == i * pageSize + pageSize - 1

\* one-based range start
ChunkFromOneBased(i) == i * pageSize + 1

Pages(count) == Ceil(count, pageSize)
ChunkFrom(i) == i * pageSize
ChunkTo(i, count) == Min(ChunkFrom(i) + pageSize - 1, count - 1)

\* the query of pass i built from the filter inputs as they are now
ChunkQueryLive(i, count) ==
  WithRange(buildFilteredQuery(Filter, FALSE), i * pageSize,
            IF i * pageSize + pageSize - 1 < count - 1
              THEN i * pageSize + pageSize - 1 ELSE count - 1)

\* the query of pass i of the loop; buildFilteredQuery there is the one of
\* the render whose exportAll is running
ChunkQuery(i, count) ==
  WithRange(buildFilteredQuery(xfilter, FALSE), ChunkFrom(i), ChunkTo(i, count))

\* `finally` of exportAll, the end of the call
exportFinally ==
  /\ exporting' = FALSE
  /\ xpc' = "idle"
  /\ exportReq' = None
  /\ activeRuns' = activeRuns - 1

\* a catch block that saves the rows fetched so far
exportCatchPartial(r) ==
  /\ alerts' = alerts + 1
  /\ saves' = saves + 1
  /\ exportFinally
  /\ Did("exportFailed", None, Got(exportReq.kind, r),
         DownloadCSV("patents_all_filtered.csv", all))
  /\ UNCHANGED <<xcount, xi, all, xissued>>

\* `catch` of exportAll, on the error response r
exportCatch(r) ==
  /\ alerts' = alerts + 1
  /\ exportFinally
  /\ Did("exportFailed", None, Got(exportReq.kind, r), None)
  /\ UNCHANGED <<xcount, xi, all, xissued, saves>>

\* downloadCSV and the end of the call, after the response r
exportSave(name, r, rows) ==
  /\ saves' = saves + 1
  /\ exportFinally
  /\ Did(name, None, Got(exportReq.kind, r),
         DownloadCSV("patents_all_filtered.csv", rows))
  /\ UNCHANGED <<xi, xissued, alerts>>

\* an empty result reported as a failure
exportEmptyAsFailure(r) == exportCatch(r)

\* the early return: downloadCSV of no rows
exportEmpty(r) ==
  /\ exportSave("exportEmpty", r, <<>>)
  /\ UNCHANGED <<xcount, all>>

\* pass i of the loop up to its await, after the response r
exportFetch(i, count, r) ==
  /\ xi' = i
  /\ xpc' = "chunk"
  /\ exportReq' = [kind |-> "chunk", q |-> ChunkQuery(i, count)]
  /\ xissued' = Append(xissued, exportReq'.q)
  /\ Did("exportChunk", exportReq', Got(exportReq.kind, r), None)
  /\ UNCHANGED <<exporting, saves, alerts, activeRuns>>

\* the button disabled only while loading
CanExportAllUnguarded == ~loading

\* the button's guard: disabled={exporting || loading}
CanExportAll == ~exporting /\ ~loading

\* exportAll up to its first await
ExportAll ==
  /\ CanExportAll
  /\ exporting' = TRUE
  /\ xfilter' = Filter
  /\ xpc' = "count"
  /\ exportReq' =
       [kind |-> "count",
        q |-> WithRange(buildFilteredQuery(Filter, TRUE), 0, 0)]
  /\ xcount' = 0 /\ xi' = 0 /\ all' = <<>>
  /\ xissued' = <<exportReq'.q>> /\ saves' = 0 /\ alerts' = 0
  /\ activeRuns' = activeRuns + 1
  /\ Did("exportAll", exportReq', None, None)
  /\ UNCHANGED <<filterVars, searchVars, envVars>>

\* the count query resolves
ExportCountResolve ==
  /\ xpc = "count"
  /\ \E r \in Responses(exportReq.q, nrows) :
       IF r.error
         THEN exportCatch(r)
         ELSE IF r.count = NoCount \/ r.count = 0 \/ r.count <= 0
           THEN exportEmpty(r)
           ELSE /\ xcount' = r.count
                /\ all' = <<>>
                /\ IF 0 < Pages(r.count)
                     THEN exportFetch(0, r.count, r)
                     ELSE exportSave("exportSaved", r, <<>>)
  /\ UNCHANGED <<filterVars, searchVars, envVars, xfilter>>

\* the query of pass xi resolves
ExportChunkResolve ==
  /\ xpc = "chunk"
  /\ \E r \in Responses(exportReq.q, nrows) :
       IF r.error
         THEN exportCatch(r)
         ELSE /\ all' = all \o FlattenAll(r.data)
              /\ IF xi + 1 < Pages(xcount)
                   THEN exportFetch(xi + 1, xcount, r)
                   ELSE exportSave("exportSaved", r, all')
              /\ UNCHANGED xcount
  /\ UNCHANGED <<filterVars, searchVars, envVars, xfilter>>

\* ---- specifications ------------------------------------------------------
ExportSizes == {1, pageSize, pageSize + 1, 2 * pageSize, MaxExportRows}

InitIdle ==
  /\ loading = FALSE /\ err = NoError /\ exporting = FALSE
  /\ searchReq = None
  /\ xpc = "idle" /\ xfilter = NoFilter /\ xcount = 0 /\ xi = 0 /\ all = <<>>
  /\ exportReq = None
  /\ op = "mount" /\ issued = None /\ got = None /\ download = None
  /\ submitQ = None /\ shownQ = None
  /\ xissued = <<>> /\ saves = 0 /\ alerts = 0 /\ activeRuns = 0
  /\ pending = 0 /\ resetHeld = FALSE
  /\ csvText = <<>>

InitSession ==
  /\ results = <<>> /\ page = 1 /\ totalCount = 0
  /\ csvRows = <<>>
  /\ InitIdle

InitFilter ==
  /\ query = EmptyStr /\ assignee = EmptyStr
  /\ fromDate = EmptyDate /\ toDate = EmptyDate

\* the mount effect has run and awaits the assignee query
InitMounting ==
  /\ mounted = TRUE /\ cancelled = FALSE
  /\ loadReq = AssigneeQuery
  /\ assignees = <<>>

\* the assignee query has resolved without error
InitLoaded ==
  /\ mounted = TRUE /\ cancelled = FALSE
  /\ loadReq = None
  /\ assignees = UniqAssignees(AssigneeAnswer(AssigneeQuery, nrows))

Edit == SetQuery \/ SetAssignee \/ SetFromDate \/ SetToDate

\* The interactive search session: the component as mounted, the filter
\* inputs, the form, the pagination and Reset buttons, the page export.
Init ==
  /\ InitFilter
  /\ nrows = MaxRows
  /\ InitSession
  /\ InitLoaded

Next ==
  \/ Edit
  \/ Submit \/ Prev \/ Next_ \/ Reset \/ SearchResolve
  \/ ExportCurrentPage

Spec == Init /\ [][Next]_vars



\* exportAll against tables of up to several chunks, with what the user can
\* do to the filter while it runs.
ExportInit ==
  /\ InitFilter
  /\ nrows \in ExportSizes
  /\ InitSession
  /\ InitLoaded

ExportNext ==
  \/ Edit \/ Reset
  \/ ExportAll \/ ExportCountResolve \/ ExportChunkResolve

ExportSpec == ExportInit /\ [][ExportNext]_vars

\* A search and an exportAll with one filter, entered before either starts.
SameFilterInit ==
  /\ query \in Keywords /\ assignee \in AssigneeOptions
  /\ fromDate \in FromDates /\ toDate \in ToDates
  /\ nrows = MaxRows
  /\ InitSession
  /\ InitLoaded

SameFilterNext ==
  \/ Submit \/ Prev \/ Next_ \/ SearchResolve
  \/ ExportAll \/ ExportCountResolve \/ ExportChunkResolve

SameFilterSpec == SameFilterInit /\ [][SameFilterNext]_vars

\* Searches with a filter entered beforehand, where an awaited search query
\* resolves in the end.
FairNext == Submit \/ Prev \/ Next_ \/ Reset \/ SearchResolve

FairSpec == SameFilterInit /\ [][FairNext]_vars /\ WF_vars(SearchResolve)

\* totalPages, canPrev and canNext over the values of page and totalCount,
\* as the Prev and Next buttons use them.
PaginationInit ==
  /\ InitFilter
  /\ nrows = MaxRows
  /\ results = <<>>
  /\ totalCount \in 0..MaxTotal
  /\ page \in 1..MaxPage
  /\ csvRows = <<>>
  /\ InitIdle
  /\ InitLoaded

PaginationNext == Prev \/ Next_ \/ SearchResolve

PaginationSpec == PaginationInit /\ [][PaginationNext]_vars

\* toCSV over record sequences with quotes, line breaks, commas, null and
\* absent values, keys in another order and keys the first record lacks.
CsvChars == {"a", "\"", "\n", "\r", ","}
CsvValues == {NullStr} \cup UNION {[1..n -> CsvChars] : n \in 0..MaxCell}
CsvSmall == {NullStr, <<>>, <<"\"">>, <<"\n">>, <<"a", "\r">>}

CsvInputs ==
  {<<>>}
  \cup { << << <<<<"a">>, <<"1">>>>, <<<<"b">>, <<"x", ",", "y">>>> >> >> }
  \cup { << << <<<<"a">>, v>>, <<<<"b">>, <<"x", ",", "y">>>> >> >> :
            v \in CsvValues }
  \cup UNION { { << << <<<<"a">>, v>>, <<<<"b">>, w>> >>, second >> :
                   second \in { << <<<<"b">>, v>>, <<<<"a">>, w>> >>,
                                << <<<<"a">>, w>> >>,
                                << <<<<"a">>, v>>, <<<<"b">>, w>>,
                                   <<<<"c">>, <<"z">>>> >> } } :
                 v \in CsvSmall, w \in CsvSmall }

CsvInit ==
  /\ InitFilter
  /\ nrows = MaxRows
  /\ results = <<>> /\ page = 1 /\ totalCount = 0
  /\ csvRows \in CsvInputs
  /\ InitIdle
  /\ InitLoaded

CsvNext == DownloadCSVText

CsvSpec == CsvInit /\ [][CsvNext]_vars

\* The component from its mount to its unmount, with the assignee query in
\* flight and what the user can do to the inputs meanwhile.
AssigneeInit ==
  /\ InitFilter
  /\ nrows \in 0..MaxRows
  /\ InitSession
  /\ InitMounting

AssigneeNext ==
  \/ mounted /\ Edit
  \/ mounted /\ Reset
  \/ AssigneeLoadResolve
  \/ Unmount

AssigneeSpec == AssigneeInit /\ [][AssigneeNext]_vars

\* ---- properties of the search session ------------------------------------

\* C1: a submit whose keyword has trimmed length < 2 while assignee, fromDate
\* and toDate are empty issues no query and leaves the result list empty and
\* totalCount = 0.
C1_EmptySubmitNoFetch ==
  ( /\ op = "submit"
    /\ Len(Trim(query)) < 2
    /\ assignee = EmptyStr /\ fromDate = EmptyDate /\ toDate = EmptyDate )
  => ( /\ issued = None
       /\ searchReq = None /\ ~loading
       /\ results = <<>>
       /\ totalCount = 0 )

\* an empty submit (keyword " a") made while page 2 of an earlier search was
\* on display
C1_Witness ==
  /\ op = "submit"
  /\ query = <<" ", "a">>
  /\ assignee = EmptyStr /\ fromDate = EmptyDate /\ toDate = EmptyDate
  /\ page = 2
  /\ issued = None /\ results = <<>> /\ totalCount = 0

\* C2: page changes only in the step in which the query awaited for page n
\* resolves without error, to n, or in a reset, to 1; issuing a query and a
\* failing query leave it unchanged.
C2_PageOnlyOnSuccess ==
  [][ /\ page' # page =>
         \/ /\ got'.kind = "search" /\ ~got'.error
            /\ searchReq # None
            /\ page' = searchReq.targetPage
            /\ searchReq.q.range = <<(page' - 1) * PAGE_SIZE,
                                     page' * PAGE_SIZE - 1>>
         \/ op' = "reset" /\ page' = 1
      /\ (issued' # None \/ (got'.kind = "search" /\ got'.error))
           => page' = page
    ]_vars

\* the query for page 2 is awaited and page is still 1
C2_Witness ==
  /\ op = "next"
  /\ searchReq # None /\ searchReq.targetPage = 2
  /\ loading
  /\ page = 1

\* C3: when the query of a search resolves with an error, the session is
\* left with the result list empty, totalCount = 0, the error message set
\* and loading false, whatever was displayed before.
C3_FailureClears ==
  (got.kind = "search" /\ got.error) =>
    ( /\ results = <<>>
      /\ totalCount = 0
      /\ err = SearchFailed
      /\ ~loading /\ searchReq = None )

\* a failed query while page 2 of an earlier search was on display
C3_Witness ==
  /\ got.kind = "search" /\ got.error
  /\ page = 2
  /\ results = <<>> /\ totalCount = 0 /\ err = SearchFailed

\* C4: the query a Prev/Next navigation issues has the constraints of the
\* query the last submit issued.
C4_NavigationUsesSubmittedFilter ==
  op \in {"prev", "next"} => Constraints(issued.q) = submitQ

\* ---- properties of exportAll ----------------------------------------------

\* the ranges of the chunk queries the exportAll call has issued
ChunkRanges == [j \in 1..(Len(xissued) - 1) |-> xissued[j + 1].range]

\* C5: every query of one exportAll call, the count query and each chunk
\* query, has the constraints of the filter values at the time of the call,
\* whatever the user does to the filter inputs while the call runs.
C5_ExportFilterFixed ==
  /\ op = "exportAll" =>
       Constraints(xissued[1]) = Constraints(buildFilteredQuery(Filter, TRUE))
  /\ \A j \in 1..Len(xissued) :
       Constraints(xissued[j]) = Constraints(xissued[1])

\* two chunk queries issued, the filter inputs changed since the call
C5_Witness ==
  /\ xpc = "chunk"
  /\ Len(xissued) >= 3
  /\ Constraints(buildFilteredQuery(Filter, TRUE)) # Constraints(xissued[1])
  /\ Constraints(xissued[3]) = Constraints(xissued[1])

\* C6: for a count c >= 1 the chunk ranges are [i*1000, min(i*1000+999, c-1)]
\* in order, each non-empty, the first starting at 0, each next one starting
\* right after the previous one; when the file is saved there are
\* ceil(c/1000) of them, the last ends at c-1, and c rows were accumulated.
C6_ChunksTile ==
  LET R == ChunkRanges IN
  /\ \A j \in 1..Len(R) :
       /\ R[j] = <<(j - 1) * 1000, Min(j * 1000 - 1, xcount - 1)>>
       /\ R[j][1] <= R[j][2]
       /\ j = 1 => R[j][1] = 0
       /\ j > 1 => R[j][1] = R[j - 1][2] + 1
  /\ Len(R) >= 1 => xcount >= 1
  /\ op = "exportSaved" =>
       /\ Len(R) = Ceil(xcount, 1000)
       /\ R[Len(R)][2] = xcount - 1
       /\ Len(all) = xcount
       /\ download.rows = all

\* an export of more than two full chunks saved
C6_Witness ==
  /\ op = "exportSaved"
  /\ xcount > 2 * pageSize
  /\ Len(ChunkRanges) = 3
  /\ Len(all) = xcount

\* C7: when the count query or a chunk query of an exportAll call returns an
\* error the call ends there: nothing is awaited any more, downloadCSV was
\* not called in that call, and alert was called exactly once; this stays
\* so until the next call starts.
C7_FailureAborts ==
  /\ (got.kind \in {"count", "chunk"} /\ got.error) =>
       /\ xpc = "idle" /\ exportReq = None /\ issued = None
       /\ download = None /\ saves = 0
       /\ alerts = 1
  /\ alerts >= 1 =>
       /\ xpc = "idle" /\ exportReq = None
       /\ saves = 0 /\ alerts = 1
  /\ saves >= 1 => (saves = 1 /\ alerts = 0 /\ xpc = "idle")

\* the second of three chunk queries failed, with the first chunk's rows
\* already accumulated
C7_Witness ==
  /\ got.kind = "chunk" /\ got.error
  /\ Len(xissued) = 3
  /\ Pages(xcount) = 3
  /\ Len(all) = pageSize
  /\ saves = 0 /\ alerts = 1 /\ download = None

\* C8: when the count query returns without error and with a count that is 0
\* or absent, the call ends with no chunk query issued, an empty CSV text
\* saved and no alert.
C8_EmptyExport ==
  (got.kind = "count" /\ ~got.error /\ (got.count = NoCount \/ got.count = 0))
  => ( /\ Len(xissued) = 1 /\ issued = None
       /\ xpc = "idle" /\ exportReq = None
       /\ download # None
       /\ download.filename = "patents_all_filtered.csv"
       /\ CsvText(download) = EmptyStr
       /\ saves = 1
       /\ alerts = 0 )

\* a count of 0 returned for a filter that matches no row
C8_Witness ==
  /\ got.kind = "count" /\ ~got.error /\ got.count = 0
  /\ ~IsEmptyFilter(xfilter)
  /\ download # None /\ download.rows = <<>>
  /\ alerts = 0

\* C10: exporting is true exactly while an exportAll call has not ended, in
\* whatever way it ends, and at most one call is running at any time.
C10_ExportingFlag ==
  /\ exporting <=> xpc # "idle"
  /\ exporting <=> exportReq # None
  /\ activeRuns = (IF exporting THEN 1 ELSE 0)
  /\ (got.kind \in {"count", "chunk"} /\ issued = None) => ~exporting

\* a call that has ended by saving the file after three chunks
C10_Witness ==
  /\ op = "exportSaved"
  /\ Len(xissued) = 4
  /\ ~exporting /\ activeRuns = 0

\* ---- search and export with one filter -----------------------------------

\* C9: when an exportAll call has saved the rows of its chunks and page 1 of
\* a search with the same constraints is on display, the displayed rows are,
\* flattened, the first 10 rows the export accumulated, in the same order.
C9_SearchExportAgree ==
  ( /\ saves = 1 /\ Len(xissued) >= 2
    /\ shownQ # None /\ shownQ.page = 1
    /\ shownQ.c = Constraints(xissued[1]) )
  => /\ FlattenAll(results) = SubSeq(all, 1, Min(PAGE_SIZE, Len(all)))
     /\ [j \in 1..Len(results) |-> results[j].id]
          = [j \in 1..Min(PAGE_SIZE, Len(all)) |-> all[j].id]

\* a full first page on display and a longer export of the same filter saved
C9_Witness ==
  /\ saves = 1 /\ Len(xissued) >= 2
  /\ shownQ # None /\ shownQ.page = 1
  /\ shownQ.c = Constraints(xissued[1])
  /\ Len(results) = PAGE_SIZE
  /\ Len(all) > PAGE_SIZE

\* ---- Reset and the empty submit ------------------------------------------

\* C11: a step of Reset leaves keyword, assignee, fromDate and toDate empty,
\* the result list empty, no error, page = 1 and totalCount = 0, and issues
\* no query: the awaited queries of the step before are those of the step
\* after.
C11_ResetClears ==
  [][ op' = "reset"
      => ( /\ query' = EmptyStr /\ assignee' = EmptyStr
           /\ fromDate' = EmptyDate /\ toDate' = EmptyDate
           /\ results' = <<>>
           /\ err' = NoError
           /\ page' = 1 /\ totalCount' = 0
           /\ issued' = None
           /\ searchReq' = searchReq /\ exportReq' = exportReq ) ]_vars

\* Reset pressed while the query for page 2 is awaited
C11_Witness ==
  /\ op = "reset"
  /\ searchReq # None
  /\ searchReq.targetPage = 2
  /\ page = 1 /\ totalCount = 0 /\ results = <<>>

\* C12: after a submit with an empty filter no error is set, loading is
\* false and the result list is empty with totalCount = 0, whatever the
\* state before the submit was.
C12_EmptySubmitReady ==
  ( /\ op = "submit"
    /\ Len(Trim(query)) < 2
    /\ assignee = EmptyStr /\ fromDate = EmptyDate /\ toDate = EmptyDate )
  => ( /\ err = NoError
       /\ ~loading
       /\ results = <<>> /\ totalCount = 0 )

\* ---- pagination arithmetic ------------------------------------------------

\* C13: for totalCount >= 0 and page >= 1, totalPages is the least n >= 1
\* with n * 10 >= totalCount (that is max(1, ceil(totalCount / 10))), canPrev
\* holds iff page > 1, canNext holds iff page is below that number (iff
\* page * 10 < totalCount), and totalCount = 0 gives one page with neither
\* navigation allowed at page 1.
C13_Pagination ==
  (totalCount >= 0 /\ page >= 1)
  => ( /\ totalPages >= 1
       /\ totalPages * 10 >= totalCount
       /\ totalPages = 1 \/ (totalPages - 1) * 10 < totalCount
       /\ canPrev <=> page > 1
       /\ canNext <=> page * 10 < totalCount
       /\ totalCount = 0 => totalPages = 1
       /\ (totalCount = 0 /\ page = 1) => (~canPrev /\ ~canNext) )

\* Prev pressed on page 3 of 3, where Next is not allowed
C13_Witness ==
  /\ op = "prev"
  /\ totalCount = 25 /\ page = 3
  /\ totalPages = 3
  /\ canPrev /\ ~canNext

\* ---- the query built from the filter --------------------------------------

\* C14: the constraints and ordering of the query built from the filter are
\* the same with and without the count; the keyword constraint is present
\* iff the trimmed keyword has length >= 2 (and carries the trimmed
\* keyword), the assignee equality iff assignee is set, the lower date bound
\* iff fromDate is set, the upper date bound iff toDate is set; the order is
\* filing_date descending; the query a submit, Prev or Next issues carries
\* exactly these.
C14_QueryFromFilter ==
  LET c == Constraints(buildFilteredQuery(Filter, TRUE)) IN
  /\ Constraints(buildFilteredQuery(Filter, FALSE)) = c
  /\ c.orIlike # <<>> <=> Len(Trim(query)) >= 2
  /\ c.orIlike # <<>> => c.orIlike = <<Trim(query)>>
  /\ c.eq # <<>> <=> assignee # EmptyStr
  /\ c.eq # <<>> => c.eq = <<assignee>>
  /\ c.gte # <<>> <=> fromDate # EmptyDate
  /\ c.gte # <<>> => c.gte = <<fromDate>>
  /\ c.lte # <<>> <=> toDate # EmptyDate
  /\ c.lte # <<>> => c.lte = <<toDate>>
  /\ c.order = [column |-> "filing_date", ascending |-> FALSE]
  /\ (op \in {"submit", "prev", "next"} /\ issued # None)
       => Constraints(issued.q) = c

\* a submit with all four filter fields set
C14_Witness ==
  /\ op = "submit"
  /\ issued # None
  /\ Len(issued.q.orIlike) = 1 /\ Len(issued.q.eq) = 1
  /\ Len(issued.q.gte) = 1 /\ Len(issued.q.lte) = 1

\* ---- the CSV text ---------------------------------------------------------
\* the concatenation of a sequence of texts
RECURSIVE Concat(_)
Concat(ss) ==
  IF ss = <<>> THEN <<>>
  ELSE Concat(SubSeq(ss, 1, Len(ss) - 1)) \o ss[Len(ss)]

\* texts with sep before each one but the first
SepBy(parts, sep) ==
  Concat([j \in 1..Len(parts) |-> IF j = 1 THEN parts[j] ELSE sep \o parts[j]])

\* a field: the value, character by character, between double quotes
CsvField(v) ==
  LET body == IF v = NullStr THEN <<>> ELSE v
      piece(c) == IF c = "\"" THEN <<"\"", "\"">>
                  ELSE IF c \in {"\n", "\r"} THEN <<" ">>
                  ELSE <<c>>
  IN <<"\"">> \o Concat([i \in 1..Len(body) |-> piece(body[i])]) \o <<"\"">>

\* the value of a record under a key, null when the record lacks the key
CsvValueAt(r, key) ==
  LET hits == {j \in 1..Len(r) : r[j][1] = key} IN
  IF hits = {} THEN NullStr ELSE r[CHOOSE j \in hits : TRUE][2]

CsvExpected(rows) ==
  LET keys == [j \in 1..Len(rows[1]) |-> rows[1][j][1]]
      row(i) == SepBy([j \in 1..Len(keys) |->
                         CsvField(CsvValueAt(rows[i], keys[j]))], <<",">>)
  IN SepBy(<<SepBy(keys, <<",">>)>> \o [i \in 1..Len(rows) |-> row(i)],
           <<"\n">>)

\* C15: the text toCSV returns for an empty record sequence is empty; for a
\* non-empty one it is the first record's keys joined by commas, unquoted,
\* then one row per record in input order, each field the value (empty when
\* null or absent) with each double quote doubled and each line-break
\* character replaced by one space, between double quotes, fields joined by
\* commas and rows by newline.
C15_CsvEncoding ==
  op = "downloadCSV"
  => IF csvRows = <<>> THEN csvText = <<>>
     ELSE csvText = CsvExpected(csvRows)

\* two records: a double quote and a line break in the first, a line break
\* in the second, which lacks key b
C15_Witness ==
  /\ op = "downloadCSV"
  /\ csvRows = << << <<<<"a">>, <<"\"">>>>, <<<<"b">>, <<"\n">>>> >>,
                  << <<<<"a">>, <<"\n">>>> >> >>
  /\ csvText = << "a", ",", "b", "\n",
                  "\"", "\"", "\"", "\"", ",", "\"", " ", "\"", "\n",
                  "\"", " ", "\"", ",", "\"", "\"" >>

\* ---- search queries in flight ---------------------------------------------

\* C16: at most one query of runSearch is awaited at any time, and one is
\* awaited only while loading is true; a submit, Prev or Next starts a query
\* only when none is awaited.
C16_OneSearchInFlight ==
  /\ pending \in {0, 1}
  /\ pending = 1 => loading
  /\ (op \in {"submit", "prev", "next"} /\ issued # None) => pending = 1

\* a second search in flight, started by Next after the first has resolved
C16_Witness ==
  /\ op = "next"
  /\ pending = 1 /\ loading
  /\ shownQ # None

\* ---- a search ends ---------------------------------------------------------

\* C17: loading is true exactly while a query of runSearch is awaited; when
\* it becomes false the query has resolved, with no error set after a
\* response without error and the failure message set after an error; and
\* whenever loading is true it is false again later, given that the awaited
\* query resolves.
C17_LoadingEnds ==
  /\ [](loading <=> pending = 1)
  /\ [][ (loading /\ ~loading')
         => ( /\ got'.kind = "search"
              /\ pending' = 0
              /\ got'.error => err' = SearchFailed
              /\ ~got'.error => err' = NoError ) ]_vars
  /\ (loading ~> ~loading)

\* loading for the third time: Prev pressed on page 2, after the searches of
\* the submit and of Next have ended
C17_Witness ==
  /\ loading /\ pending = 1
  /\ op = "prev"
  /\ page = 2 /\ err = NoError

\* ---- the assignee list and the unmount -------------------------------------

\* C18: once the component is unmounted no step modifies the assignee list;
\* a response to the assignee query that arrives after the unmount, with or
\* without error, is not applied.
C18_NoApplyAfterTeardown ==
  [][ ~mounted => assignees' = assignees ]_vars

\* a response with rows arrived after the unmount and the list is still empty
C18_Witness ==
  /\ ~mounted /\ cancelled
  /\ got.kind = "assignees"
  /\ ~got.error /\ got.rows > 0
  /\ loadReq = None
  /\ assignees = <<>>

\* ---- Reset during a search, and the page range -----------------------------

\* C19: from a Reset pressed while a search query was awaited until the next
\* submit, the result list is empty, page = 1 and totalCount = 0: the rows,
\* count and page of the query that was awaited are not applied when it
\* resolves.
C19_ResetNotUndone ==
  resetHeld => (results = <<>> /\ page = 1 /\ totalCount = 0)

\* C20: in every state in which no search query is awaited,
\* 1 <= page <= totalPages, where totalPages = max(1, ceil(totalCount / 10)).
C20_PageInRange ==
  pending = 0 => (1 <= page /\ page <= totalPages)

====
